---- MODULE Spec2Model ----
(***************************************************************************)
(* TurbuStat statistics: the SCF, MVC and VCA engines and their distance   *)
(* metrics (scf.py, mvc.py, vca.py) as state machines over small arrays.   *)
(*                                                                         *)
(* Numbers.  Array cells are small naturals, or NaN.  An SCF surface cell  *)
(* is 1 - sqrt(q) with q an exact rational: the cell is kept as the        *)
(* reduced fraction q = <<n, d>>, and <<0, 0>> is a NaN cell, so two cells *)
(* are equal exactly when their fractions are.  Floating-point rounding of *)
(* the sums is not modelled.  Results of numpy's FFT, of the radial binner *)
(* pspec and of the regression backend are terms over their arguments.    *)
(***************************************************************************)
EXTENDS Integers, Sequences, FiniteSets, TLC

VARIABLES kind, inp, eng, dist, last

vars == <<kind, inp, eng, dist, last>>

\* ------------------------------------------------------------ bounds
MaxVal == 1
MaxSize == 4
MaxCalls == 2

\* ------------------------------------------------------------ values
\* numpy's nan, as a cell value outside the naturals.
NaN == -1

IsNaN(v) == v = NaN

Vals == (0..MaxVal) \cup {NaN}

\* Python attribute states: never assigned, assigned None, assigned a value.
Absent == <<"absent">>

None == <<"None">>

Val(v) == <<"val", v>>

IsVal(o) == o[1] = "val"

\* The exception an operation ended with; NoExc when it returned.
NoExc == "none"

NoObj == [cls |-> "none"]

\* ------------------------------------------------------------ fractions
RECURSIVE GCD(_, _)
GCD(a, b) == IF b = 0 THEN a ELSE GCD(b, a % b)

NaNF == <<0, 0>>

Frac(n, d) == IF d = 0 THEN NaNF ELSE LET g == GCD(n, d) IN <<n \div g, d \div g>>

FracAdd(p, q) == Frac(p[1] * q[2] + q[1] * p[2], p[2] * q[2])

Sq(v) == v * v

\* np.nansum over a sequence of naturals-or-NaN: NaN entries count as 0.
RECURSIVE NanSum(_)
NanSum(s) == IF s = <<>> THEN 0 ELSE (IF IsNaN(Head(s)) THEN 0 ELSE Head(s)) + NanSum(Tail(s))

\* ------------------------------------------------------------ arrays
\* A cube is [ndim, shape, data, thick]; a 3-D cube's data is data[z][y][x], and
\* thick is its slice thickness (1 as observed).
Cube3(shape, data) == [ndim |-> 3, shape |-> shape, data |-> data, thick |-> 1]

\* A 2-D field is [ndim, shape, data] with data[y][x].
Field2(shape, data) == [ndim |-> 2, shape |-> shape, data |-> data]

\* Rolled with the cells shifted in filled with 0 instead of wrapped around.
Rolled_zerofill(cube, i, j) ==
    LET ny == cube.shape[2]
        nx == cube.shape[3]
    IN  [cube EXCEPT !.data =
            [z \in 1..cube.shape[1] |->
               [y \in 1..ny |->
                  [x \in 1..nx |->
                     IF y - i \in 1..ny /\ x - j \in 1..nx THEN cube.data[z][y - i][x - j] ELSE 0]]]]

\* np.roll(cube, i, axis=1) then np.roll(., j, axis=2): circular, cell (y, x)
\* of the result is cell (y - i, x - j) of the cube.
Rolled(cube, i, j) ==
    LET ny == cube.shape[2]
        nx == cube.shape[3]
    IN  [cube EXCEPT !.data =
            [z \in 1..cube.shape[1] |->
               [y \in 1..ny |->
                  [x \in 1..nx |-> cube.data[z][((y - 1 - i) % ny) + 1][((x - 1 - j) % nx) + 1]]]]]

\* PixelValue with np.sum for np.nansum: one NaN channel makes the pixel NaN.
PixelValue_sum(cube, tmp, y, x) ==
    LET nz == cube.shape[1]
        bad == \E z \in 1..nz : IsNaN(cube.data[z][y][x]) \/ IsNaN(tmp.data[z][y][x])
        diff2 == [z \in 1..nz |-> Sq(cube.data[z][y][x] - tmp.data[z][y][x])]
        c2 == [z \in 1..nz |-> Sq(cube.data[z][y][x])]
        t2 == [z \in 1..nz |-> Sq(tmp.data[z][y][x])]
    IN  IF bad THEN NaNF ELSE Frac(NanSum(diff2), NanSum(c2) + NanSum(t2))

\* One pixel of `values` (scf.py 67-69): the channel sums skip NaN terms; a zero
\* denominator gives 0/0 = NaN.
PixelValue(cube, tmp, y, x) ==
    LET nz == cube.shape[1]
        diff2 == [z \in 1..nz |->
                    IF IsNaN(cube.data[z][y][x]) \/ IsNaN(tmp.data[z][y][x]) THEN NaN
                    ELSE Sq(cube.data[z][y][x] - tmp.data[z][y][x])]
        c2 == [z \in 1..nz |-> IF IsNaN(cube.data[z][y][x]) THEN NaN ELSE Sq(cube.data[z][y][x])]
        t2 == [z \in 1..nz |-> IF IsNaN(tmp.data[z][y][x]) THEN NaN ELSE Sq(tmp.data[z][y][x])]
    IN  Frac(NanSum(diff2), NanSum(c2) + NanSum(t2))

\* np.nansum(values) and np.sum(np.isfinite(values)) over the pixels, as <<sum, count>>.
RECURSIVE SumFinite(_)
SumFinite(s) ==
    IF s = <<>> THEN <<Frac(0, 1), 0>>
    ELSE LET r == SumFinite(Tail(s))
         IN  IF Head(s) = NaNF THEN r ELSE <<FracAdd(Head(s), r[1]), r[2] + 1>>

\* scf_value for the lag (i, j) (scf.py 65-72), as the fraction under the root.
ScfValue(cube, i, j) ==
    LET tmp == Rolled(cube, i, j)
        ny == cube.shape[2]
        nx == cube.shape[3]
        values == [k \in 1..(ny * nx) |->
                     PixelValue(cube, tmp, ((k - 1) \div nx) + 1, ((k - 1) % nx) + 1)]
        sc == SumFinite(values)
    IN  IF sc[2] = 0 THEN NaNF ELSE Frac(sc[1][1], sc[1][2] * sc[2])

\* np.zeros((size, size)): 0.0 = 1 - sqrt(1).
Zeros(size) == [r \in 1..size |-> [c \in 1..size |-> Frac(1, 1)]]

\* The surface the double loop fills (scf.py 60-73): lag (i, j) at [i + size/2, j + size/2].
Surface(cube, size) ==
    LET h == size \div 2
    IN  [r \in 1..size |-> [c \in 1..size |-> ScfValue(cube, r - 1 - h, c - 1 - h)]]

\* ------------------------------------------------------------ cubes
\* All 3-D cubes of a shape, and all 2-D arrays of a shape, over the cell values.
CubesOf(shape) ==
    {Cube3(shape, d) : d \in [1..shape[1] -> [1..shape[2] -> [1..shape[3] -> Vals]]]}

FieldsOf(shape) == {Field2(shape, d) : d \in [1..shape[1] -> [1..shape[2] -> Vals]]}

Ones(shape) == Field2(shape, [y \in 1..shape[1] |-> [x \in 1..shape[2] |-> 1]])

\* A 2-D array handed in where a cube is expected.
FlatCube == [ndim |-> 2, shape |-> <<1, 2>>, data |-> <<<<1, 0>>>>, thick |-> 1]

Header == [CDELT2 |-> -1]

\* The cubes one engine is exercised on, and the smaller ones of a pair.
EngineCubes == CubesOf(<<1, 1, 3>>) \cup CubesOf(<<1, 2, 2>>) \cup CubesOf(<<2, 1, 2>>) \cup {FlatCube}

PairCubes == CubesOf(<<1, 1, 2>>)

\* Surface on every 3-D cube and size in use, computed once.
SurfaceTable ==
    [c \in {k \in EngineCubes \cup PairCubes : k.ndim = 3} |->
        [n \in 1..MaxSize |-> Surface(c, n)]]

SurfaceOf(cube, size) == SurfaceTable[cube][size]

\* ------------------------------------------------------------ pspec
\* The radial binner (psds.pspec) on a 2-D statistic: its three outputs are opaque
\* results, told apart by the binning asked for.
pspec(surface, logspacing) ==
    [freqs |-> [out |-> "freqs", logspacing |-> logspacing],
     ps1D |-> [out |-> "ps1D", logspacing |-> logspacing],
     stddev |-> [out |-> "stddev", logspacing |-> logspacing]]

\* ------------------------------------------------------------ SCF
\* What a call did: the object after it, the exception it ended with, its return value.
Ret(obj, exc, ret) == [obj |-> obj, exc |-> exc, ret |-> ret]

\* SCF_init with the size kept as given.
SCF_init_keepsize(cube, size) ==
    Ret([cls |-> "SCF",
         cube |-> cube,
         size |-> size,
         scf_surface |-> None,
         scf_spectrum |-> Absent,
         lags |-> Absent,
         scf_spectrum_stddev |-> None,
         stddev_flag |-> Absent,
         n2d |-> 0], NoExc, None)

\* SCF.__init__: an even size is reduced by one; the cube is stored as given.
SCF_init(cube, size) ==
    Ret([cls |-> "SCF",
         cube |-> cube,
         size |-> IF size % 2 = 0 THEN size - 1 ELSE size,
         scf_surface |-> None,
         scf_spectrum |-> Absent,
         lags |-> Absent,
         scf_spectrum_stddev |-> None,
         stddev_flag |-> Absent,
         n2d |-> 0], NoExc, None)

\* SCF.compute_surface: the surface is first set to zeros, then filled; with a cube
\* of fewer than 3 dimensions np.roll raises on the first lag and the zeros stay.
\* n2d counts the calls.
SCF_compute_surface(e) ==
    IF e.cube.ndim < 3
    THEN Ret([e EXCEPT !.scf_surface = Val(Zeros(e.size)), !.n2d = e.n2d + 1], "ValueError", None)
    ELSE Ret([e EXCEPT !.scf_surface = Val(SurfaceOf(e.cube, e.size)), !.n2d = e.n2d + 1], NoExc, None)

\* SCF.compute_spectrum: computes the surface when it is None, then bins it.
SCF_compute_spectrum(e, logspacing, return_stddev) ==
    LET r1 == IF e.scf_surface = None THEN SCF_compute_surface(e) ELSE Ret(e, NoExc, None)
        o == r1.obj
        p == pspec(o.scf_surface[2], logspacing)
    IN  IF r1.exc # NoExc THEN r1
        ELSE IF return_stddev
        THEN Ret([o EXCEPT !.lags = Val(p.freqs), !.scf_spectrum = Val(p.ps1D),
                           !.scf_spectrum_stddev = Val(p.stddev),
                           !.stddev_flag = Val(TRUE)], NoExc, None)
        ELSE Ret([o EXCEPT !.lags = Val(p.freqs), !.scf_spectrum = Val(p.ps1D),
                           !.stddev_flag = Val(FALSE)], NoExc, None)

\* SCF.run (verbose=False): compute_surface, then compute_spectrum.
SCF_run(e, logspacing, return_stddev) ==
    LET r1 == SCF_compute_surface(e)
    IN  IF r1.exc # NoExc THEN r1 ELSE SCF_compute_spectrum(r1.obj, logspacing, return_stddev)

\* The property SCF.scf_spectrum_stddev: reads _stddev_flag, which only
\* compute_spectrum assigns, builds (and drops) a Warning object when the flag is
\* False, and returns _scf_spectrum_stddev.
SCF_scf_spectrum_stddev(e) ==
    IF e.stddev_flag = Absent THEN Ret(e, "AttributeError", None)
    ELSE Ret(e, NoExc, e.scf_spectrum_stddev)

\* ------------------------------------------------------------ MVC
Cells(f) == {f.data[y][x] : y \in 1..f.shape[1], x \in 1..f.shape[2]}

\* np.nanmin: the least non-NaN cell, NaN when every cell is NaN.
NanMin(f) ==
    LET fin == {v \in Cells(f) : ~IsNaN(v)}
    IN  IF fin = {} THEN NaN ELSE CHOOSE m \in fin : \A v \in fin : m <= v

\* field[np.isnan(field)] = np.nanmin(field)
FillNaN(f, fill) ==
    [f EXCEPT !.data = [y \in 1..f.shape[1] |->
                          [x \in 1..f.shape[2] |->
                             IF IsNaN(f.data[y][x]) THEN fill ELSE f.data[y][x]]]]

Abs(n) == IF n < 0 THEN -n ELSE n

\* MVC.__init__: the NaN fill, the pixel scale, then the two shape assertions.
MVC_init(centroid, moment0, linewidth, header) ==
    IF centroid.shape # moment0.shape \/ centroid.shape # linewidth.shape
    THEN Ret(NoObj, "AssertionError", None)
    ELSE Ret([cls |-> "MVC",
              centroid |-> FillNaN(centroid, NanMin(centroid)),
              moment0 |-> FillNaN(moment0, NanMin(moment0)),
              linewidth |-> FillNaN(linewidth, NanMin(linewidth)),
              degperpix |-> Abs(header.CDELT2),
              shape |-> centroid.shape,
              ps2D |-> Absent,
              ps1D |-> Absent,
              freqs |-> Absent,
              ps1D_stddev |-> None,
              stddev_flag |-> Absent,
              n2d |-> 0], NoExc, None)

\* MVC.compute_pspec: |fftshift(fft2(c*m) - (l^2 + c^2) fft2(m))|^2 of the engine's
\* three fields, an opaque array of their shape.  n2d counts the calls.
MVC_compute_pspec(e) ==
    Ret([e EXCEPT !.ps2D = Val([of |-> "mvc", shape |-> e.shape]),
                  !.n2d = e.n2d + 1], NoExc, None)

\* MVC.compute_radial_pspec: reads the property ps2D (self._ps2D), which only
\* compute_pspec assigns.
MVC_compute_radial_pspec(e, return_stddev, logspacing) ==
    IF e.ps2D = Absent THEN Ret(e, "AttributeError", None)
    ELSE LET p == pspec(e.ps2D[2], logspacing)
         IN  IF return_stddev
             THEN Ret([e EXCEPT !.freqs = Val([f |-> p.freqs, scale |-> 0]), !.ps1D = Val(p.ps1D),
                                !.ps1D_stddev = Val(p.stddev),
                                !.stddev_flag = Val(TRUE)], NoExc, None)
             ELSE Ret([e EXCEPT !.freqs = Val([f |-> p.freqs, scale |-> 0]), !.ps1D = Val(p.ps1D),
                                !.stddev_flag = Val(FALSE)], NoExc, None)

\* MVC.run (verbose=False): compute_pspec, compute_radial_pspec, and with
\* phys_units the frequencies are scaled by 1/degperpix.
MVC_run(e, phys_units, logspacing, return_stddev) ==
    LET r1 == MVC_compute_pspec(e)
        r2 == MVC_compute_radial_pspec(r1.obj, return_stddev, logspacing)
        o == r2.obj
    IN  IF r2.exc # NoExc THEN r2
        ELSE IF phys_units
        THEN Ret([o EXCEPT !.freqs = Val([f |-> o.freqs[2].f, scale |-> o.degperpix])], NoExc, None)
        ELSE r2

\* The property MVC.ps1D_stddev.
MVC_ps1D_stddev(e) ==
    IF e.stddev_flag = Absent THEN Ret(e, "AttributeError", None)
    ELSE Ret(e, NoExc, e.ps1D_stddev)

\* ------------------------------------------------------------ VCA
\* cube[np.isnan(cube)] = 0 on the float copy of the cube.
ZeroNaN(cube) ==
    IF cube.ndim = 3
    THEN [cube EXCEPT !.data =
            [z \in 1..cube.shape[1] |->
               [y \in 1..cube.shape[2] |->
                  [x \in 1..cube.shape[3] |->
                     IF IsNaN(cube.data[z][y][x]) THEN 0 ELSE cube.data[z][y][x]]]]]
    ELSE [cube EXCEPT !.data =
            [y \in 1..cube.shape[1] |->
               [x \in 1..cube.shape[2] |->
                  IF IsNaN(cube.data[y][x]) THEN 0 ELSE cube.data[y][x]]]]

\* slice_thickness.change_slice_thickness: the cube at the given slice thickness,
\* its spatial shape unchanged.
change_slice_thickness(cube, slice_thickness) == [cube EXCEPT !.thick = slice_thickness]

\* VCA.__init__.  slice_size is None or Val(s), s = 1 standing for 1.0.
\* self.slice_size is assigned only when slice_size is None, and read whenever
\* slice_size != 1.0.
VCA_init(cube, header, slice_size, phys_units) ==
    LET c0 == ZeroNaN(cube)
        e0 == [cls |-> "VCA",
               cube |-> c0,
               header |-> header,
               shape |-> c0.shape,
               slice_size |-> IF slice_size = None THEN Val(1) ELSE Absent,
               phys_units_flag |-> phys_units,
               ps2D |-> Absent,
               ps1D |-> Absent,
               freqs |-> Absent,
               ps1D_stddev |-> None,
               stddev_flag |-> Absent,
               slope |-> Absent,
               slope_err |-> Absent,
               brk |-> Absent,
               n2d |-> 0]
    IN  IF slice_size # Val(1)
        THEN IF e0.slice_size = Absent THEN Ret(NoObj, "AttributeError", None)
             ELSE Ret([e0 EXCEPT !.cube = change_slice_thickness(c0, e0.slice_size[2])], NoExc, None)
        ELSE Ret(e0, NoExc, None)

\* VCA.compute_pspec: sum over the spectral axis of fftshift(rfft_to_fft(cube))^2,
\* an opaque array.  n2d counts the calls.
VCA_compute_pspec(e) ==
    Ret([e EXCEPT !.ps2D = Val([of |-> "vca", shape |-> e.shape]), !.n2d = e.n2d + 1], NoExc, None)

\* StatisticBase_PSpec2D.compute_radial_pspec: the radial profile of ps2D.
Base_compute_radial_pspec(e, return_stddev) ==
    IF e.ps2D = Absent THEN Ret(e, "AttributeError", None)
    ELSE LET p == pspec(e.ps2D[2], TRUE)
         IN  IF return_stddev
             THEN Ret([e EXCEPT !.freqs = Val(p.freqs), !.ps1D = Val(p.ps1D),
                                !.ps1D_stddev = Val(p.stddev),
                                !.stddev_flag = Val(TRUE)], NoExc, None)
             ELSE Ret([e EXCEPT !.freqs = Val(p.freqs), !.ps1D = Val(p.ps1D),
                                !.stddev_flag = Val(FALSE)], NoExc, None)

\* StatisticBase_PSpec2D.fit_pspec: the power-law fit of the profile, broken at brk.
Base_fit_pspec(e, brk) ==
    IF e.ps1D = Absent THEN Ret(e, "AttributeError", None)
    ELSE Ret([e EXCEPT !.slope = Val([out |-> "slope", brk |-> brk]),
                       !.slope_err = Val([out |-> "slope_err", brk |-> brk]),
                       !.brk = Val(brk)], NoExc, None)

\* VCA.run (verbose=False): compute_pspec, compute_radial_pspec, fit_pspec.
VCA_run(e, brk, return_stddev) ==
    LET r1 == VCA_compute_pspec(e)
        r2 == Base_compute_radial_pspec(r1.obj, return_stddev)
    IN  IF r2.exc # NoExc THEN r2 ELSE Base_fit_pspec(r2.obj, brk)

\* ------------------------------------------------------------ distances
\* What a distance constructor did: the distance object, the exception, and the
\* engines it created (NoObj for one it did not create).
DRet(obj, exc, e1, e2) == [obj |-> obj, exc |-> exc, ret |-> None, e1 |-> e1, e2 |-> e2]

\* SCF_Distance_init with the second engine built and never run.
SCF_Distance_init_norun2(cube1, cube2, size, fiducial_model, weighted) ==
    LET r1 == IF fiducial_model # NoObj THEN Ret(NoObj, NoExc, None)
              ELSE SCF_run(SCF_init(cube1, size).obj, FALSE, FALSE)
        r2 == SCF_init(cube2, size)
    IN  IF r1.exc # NoExc THEN DRet(NoObj, r1.exc, NoObj, NoObj)
        ELSE DRet([cls |-> "SCF_Distance", size |-> size, weighted |-> weighted,
                   scf1 |-> IF fiducial_model # NoObj THEN "fid" ELSE "e1", scf2 |-> "e2",
                   dist_weight |-> Absent, distance |-> None], NoExc, r1.obj, r2.obj)

\* SCF_Distance_init whose own first engine is built from cube2.
SCF_Distance_init_cube2(cube1, cube2, size, fiducial_model, weighted) ==
    LET r1 == IF fiducial_model # NoObj THEN Ret(NoObj, NoExc, None)
              ELSE SCF_run(SCF_init(cube2, size).obj, FALSE, FALSE)
        r2 == SCF_run(SCF_init(cube2, size).obj, FALSE, FALSE)
    IN  IF r1.exc # NoExc THEN DRet(NoObj, r1.exc, NoObj, NoObj)
        ELSE IF r2.exc # NoExc THEN DRet(NoObj, r2.exc, NoObj, NoObj)
        ELSE DRet([cls |-> "SCF_Distance", size |-> size, weighted |-> weighted,
                   scf1 |-> IF fiducial_model # NoObj THEN "fid" ELSE "e1", scf2 |-> "e2",
                   dist_weight |-> Absent, distance |-> None], NoExc, r1.obj, r2.obj)

\* SCF_Distance.__init__.  fiducial_model is NoObj for None, else an engine, which
\* is stored as it is.  scf1 names the engine used: "fid" (the caller's) or "e1".
SCF_Distance_init(cube1, cube2, size, fiducial_model, weighted) ==
    LET r1 == IF fiducial_model # NoObj THEN Ret(NoObj, NoExc, None)
              ELSE SCF_run(SCF_init(cube1, size).obj, FALSE, FALSE)
        r2 == SCF_run(SCF_init(cube2, size).obj, FALSE, FALSE)
    IN  IF r1.exc # NoExc THEN DRet(NoObj, r1.exc, NoObj, NoObj)
        ELSE IF r2.exc # NoExc THEN DRet(NoObj, r2.exc, NoObj, NoObj)
        ELSE DRet([cls |-> "SCF_Distance",
                   size |-> size,
                   weighted |-> weighted,
                   scf1 |-> IF fiducial_model # NoObj THEN "fid" ELSE "e1",
                   scf2 |-> "e2",
                   dist_weight |-> Absent,
                   distance |-> None], NoExc, r1.obj, r2.obj)

\* dist_weight of distance_metric (scf.py 199-209), squared: the weight of a cell
\* enters the distance as ((s1 - s2) * w)^2.  meshgrid gives a[r][c] = dx[c] and
\* b[r][c] = dy[r]; every zero of a and every zero of b is set to 1.
DistWeight2(size, weighted) ==
    LET h == size \div 2
        a(c) == IF c - 1 - h = 0 THEN 1 ELSE c - 1 - h
        b(r) == IF r - 1 - h = 0 THEN 1 ELSE r - 1 - h
    IN  [r \in 1..size |-> [c \in 1..size |->
            IF weighted THEN Frac(1, Sq(a(c)) + Sq(b(r))) ELSE Frac(1, 1)]]

\* numpy broadcasting of two square arrays of sides n and m: the side of the
\* result, 0 when the shapes do not broadcast.
Broadcast(n, m) == IF n = m THEN n ELSE IF n = 1 THEN m ELSE IF m = 1 THEN n ELSE 0

At(mat, n, r, c) == IF n = 1 THEN mat[1][1] ELSE mat[r][c]

\* SCF_Distance.distance_metric (verbose=False) on the two engines s1, s2.  The
\* distance sqrt(nansum(difference) / count of finite cells) is kept as the array
\* `difference`, whose finite cells are [q1, q2, w2] for ((s1 - s2) * w)^2.
SCF_Distance_distance_metric(d, s1, s2) ==
    LET w2 == DistWeight2(d.size, d.weighted)
        d1 == [d EXCEPT !.dist_weight = Val(w2)]
    IN  IF s1.scf_surface = None \/ s2.scf_surface = None THEN Ret(d1, "TypeError", None)
        ELSE LET m1 == s1.scf_surface[2]
                 m2 == s2.scf_surface[2]
                 n12 == Broadcast(Len(m1), Len(m2))
                 n == Broadcast(n12, d.size)
             IN  IF n12 = 0 \/ n = 0 THEN Ret(d1, "ValueError", None)
                 ELSE Ret([d1 EXCEPT !.distance = Val(
                        [r \in 1..n |-> [c \in 1..n |->
                            LET q1 == At(m1, Len(m1), r, c)
                                q2 == At(m2, Len(m2), r, c)
                            IN  IF q1 = NaNF \/ q2 = NaNF THEN [nan |-> TRUE]
                                ELSE [nan |-> FALSE, q1 |-> q1, q2 |-> q2,
                                      w2 |-> At(w2, d.size, r, c)]]])], NoExc, None)

\* data["x"][0] * data["x_error"][0] ** -2., for error arrays of the field's shape.
Weighted(f, err) ==
    [f EXCEPT !.data = [y \in 1..f.shape[1] |-> [x \in 1..f.shape[2] |->
        IF IsNaN(f.data[y][x]) \/ IsNaN(err.data[y][x]) THEN NaN
        ELSE f.data[y][x] \div Sq(err.data[y][x])]]]

MVC_of(data) ==
    MVC_init(Weighted(data.centroid, data.centroid_error),
             Weighted(data.moment0, data.moment0_error),
             Weighted(data.linewidth, data.linewidth_error), data.header)

\* MVC_distance.__init__.
MVC_distance_init(data1, data2, fiducial_model) ==
    LET c1 == IF fiducial_model # NoObj THEN Ret(NoObj, NoExc, None) ELSE MVC_of(data1)
        r1 == IF c1.exc # NoExc \/ fiducial_model # NoObj THEN c1
              ELSE MVC_run(c1.obj, FALSE, TRUE, FALSE)
        c2 == MVC_of(data2)
        r2 == IF c2.exc # NoExc THEN c2 ELSE MVC_run(c2.obj, FALSE, TRUE, FALSE)
    IN  IF r1.exc # NoExc THEN DRet(NoObj, r1.exc, NoObj, NoObj)
        ELSE IF r2.exc # NoExc THEN DRet(NoObj, r2.exc, NoObj, NoObj)
        ELSE DRet([cls |-> "MVC_distance",
                   shape1 |-> data1.centroid.shape,
                   shape2 |-> data2.centroid.shape,
                   mvc1 |-> IF fiducial_model # NoObj THEN "fid" ELSE "e1",
                   mvc2 |-> "e2",
                   results |-> None,
                   distance |-> None], NoExc, r1.obj, r2.obj)

\* MVC_distance.distance_metric (verbose=False): the |t| of the interaction term
\* of the regression over both clipped profiles, a term over the profiles.
MVC_distance_distance_metric(d, m1, m2, low_cut, high_cut) ==
    IF m1.freqs = Absent \/ m1.ps1D = Absent \/ m2.freqs = Absent \/ m2.ps1D = Absent
    THEN Ret(d, "AttributeError", None)
    ELSE LET fit == [x1 |-> m1.freqs[2], y1 |-> m1.ps1D[2], x2 |-> m2.freqs[2],
                     y2 |-> m2.ps1D[2], low |-> low_cut, high |-> high_cut]
         IN  Ret([d EXCEPT !.results = Val(fit), !.distance = Val(fit)], NoExc, None)

\* VCA_Distance.__init__.  slice_size is None or Val(s) (a float); breaks is None,
\* Val(b) or <<"list", b1, b2>>.  The test on breaks holds of every value (nothing
\* is a list and an ndarray), so breaks is always doubled.
VCA_Distance_init(cube1, cube2, slice_size, breaks, fiducial_model) ==
    LET brks == <<breaks, breaks>>
        c1 == IF fiducial_model # NoObj THEN Ret(NoObj, NoExc, None)
              ELSE VCA_init(cube1.data, cube1.header, slice_size, FALSE)
        r1 == IF c1.exc # NoExc \/ fiducial_model # NoObj THEN c1
              ELSE VCA_run(c1.obj, brks[1], TRUE)
        c2 == VCA_init(cube2.data, cube2.header, slice_size, FALSE)
        r2 == IF c2.exc # NoExc THEN c2 ELSE VCA_run(c2.obj, brks[2], TRUE)
    IN  IF ~IsVal(slice_size) THEN DRet(NoObj, "AssertionError", NoObj, NoObj)
        ELSE IF r1.exc # NoExc THEN DRet(NoObj, r1.exc, NoObj, NoObj)
        ELSE IF r2.exc # NoExc THEN DRet(NoObj, r2.exc, NoObj, NoObj)
        ELSE DRet([cls |-> "VCA_Distance",
                   shape1 |-> cube1.data.shape,
                   shape2 |-> cube2.data.shape,
                   vca1 |-> IF fiducial_model # NoObj THEN "fid" ELSE "e1",
                   vca2 |-> "e2",
                   distance |-> Absent], NoExc, r1.obj, r2.obj)

\* VCA_Distance.distance_metric (verbose=False): |slope1 - slope2| over the root
\* of the summed squared slope errors.
VCA_Distance_distance_metric(d, v1, v2) ==
    IF v1.slope = Absent \/ v2.slope = Absent \/ v1.slope_err = Absent \/ v2.slope_err = Absent
    THEN Ret(d, "AttributeError", None)
    ELSE Ret([d EXCEPT !.distance = Val([s1 |-> v1.slope[2], s2 |-> v2.slope[2]])], NoExc, None)

\* ------------------------------------------------------------ inputs
Fields == FieldsOf(<<1, 1>>) \cup FieldsOf(<<1, 2>>)

Sizes == 1..MaxSize

\* A dataset of MVC_distance: the three moment arrays, their error arrays, the header.
Dataset(c, m, l) ==
    [centroid |-> c, centroid_error |-> Ones(c.shape),
     moment0 |-> m, moment0_error |-> Ones(m.shape),
     linewidth |-> l, linewidth_error |-> Ones(l.shape),
     header |-> Header]

Datasets == {Dataset(c, Ones(c.shape), Ones(c.shape)) : c \in Fields}

SliceSizes == {None, Val(1), Val(2)}

Breaks == {None, Val(1), <<"list", 1, 2>>}

Boot == [op |-> "boot", exc |-> NoExc, ret |-> None, had2d |-> FALSE, n2d0 |-> 0]

NoEngines == [fid |-> NoObj, e1 |-> NoObj, e2 |-> NoObj]

\* What the last call was: its name, its exception, its return value, and of the
\* engine before the call whether it held a 2-D statistic and its count n2d.
Call(op, r, had2d, n2d0) == [op |-> op, exc |-> r.exc, ret |-> r.ret, had2d |-> had2d, n2d0 |-> n2d0]

VCubes == {[data |-> c, header |-> Header] : c \in CubesOf(<<1, 1, 1>>)}

\* ------------------------------------------------------------ engine calls
\* The caller's engine is eng.fid.  Each action is one call by the caller.
SCFNew ==
    /\ kind = "SCF" /\ eng.fid = NoObj
    /\ LET r == SCF_init(inp.cube1, inp.size)
       IN  /\ eng' = [eng EXCEPT !.fid = r.obj]
           /\ last' = Call("SCF", r, FALSE, 0)
    /\ UNCHANGED <<kind, inp, dist>>

SCFComputeSurface ==
    /\ eng.fid.cls = "SCF" /\ eng.fid.n2d < MaxCalls
    /\ LET r == SCF_compute_surface(eng.fid)
       IN  /\ eng' = [eng EXCEPT !.fid = r.obj]
           /\ last' = Call("compute_surface", r, eng.fid.scf_surface # None, eng.fid.n2d)
    /\ UNCHANGED <<kind, inp, dist>>

SCFComputeSpectrum ==
    /\ eng.fid.cls = "SCF" /\ eng.fid.n2d < MaxCalls
    /\ \E return_stddev \in BOOLEAN :
         LET r == SCF_compute_spectrum(eng.fid, FALSE, return_stddev)
         IN  /\ eng' = [eng EXCEPT !.fid = r.obj]
             /\ last' = Call("compute_spectrum", r, eng.fid.scf_surface # None, eng.fid.n2d)
    /\ UNCHANGED <<kind, inp, dist>>

SCFRun ==
    /\ eng.fid.cls = "SCF" /\ eng.fid.n2d < MaxCalls
    /\ \E return_stddev \in BOOLEAN :
         LET r == SCF_run(eng.fid, FALSE, return_stddev)
         IN  /\ eng' = [eng EXCEPT !.fid = r.obj]
             /\ last' = Call("run", r, eng.fid.scf_surface # None, eng.fid.n2d)
    /\ UNCHANGED <<kind, inp, dist>>

SCFReadStddev ==
    /\ eng.fid.cls = "SCF"
    /\ LET r == SCF_scf_spectrum_stddev(eng.fid)
       IN  last' = Call("stddev", r, eng.fid.scf_surface # None, eng.fid.n2d)
    /\ UNCHANGED <<kind, inp, eng, dist>>

MVCNew ==
    /\ kind = "MVC" /\ eng.fid = NoObj
    /\ LET r == MVC_init(inp.data1.centroid, inp.data1.moment0, inp.data1.linewidth,
                         inp.data1.header)
       IN  /\ eng' = [eng EXCEPT !.fid = r.obj]
           /\ last' = Call("MVC", r, FALSE, 0)
    /\ UNCHANGED <<kind, inp, dist>>

MVCComputePspec ==
    /\ eng.fid.cls = "MVC" /\ eng.fid.n2d < MaxCalls
    /\ LET r == MVC_compute_pspec(eng.fid)
       IN  /\ eng' = [eng EXCEPT !.fid = r.obj]
           /\ last' = Call("compute_pspec", r, eng.fid.ps2D # Absent, eng.fid.n2d)
    /\ UNCHANGED <<kind, inp, dist>>

MVCComputeRadialPspec ==
    /\ eng.fid.cls = "MVC" /\ eng.fid.n2d < MaxCalls
    /\ \E return_stddev \in BOOLEAN :
         LET r == MVC_compute_radial_pspec(eng.fid, return_stddev, TRUE)
         IN  /\ eng' = [eng EXCEPT !.fid = r.obj]
             /\ last' = Call("compute_radial_pspec", r, eng.fid.ps2D # Absent, eng.fid.n2d)
    /\ UNCHANGED <<kind, inp, dist>>

MVCRun ==
    /\ eng.fid.cls = "MVC" /\ eng.fid.n2d < MaxCalls
    /\ \E return_stddev \in BOOLEAN :
         LET r == MVC_run(eng.fid, FALSE, TRUE, return_stddev)
         IN  /\ eng' = [eng EXCEPT !.fid = r.obj]
             /\ last' = Call("run", r, eng.fid.ps2D # Absent, eng.fid.n2d)
    /\ UNCHANGED <<kind, inp, dist>>

MVCReadStddev ==
    /\ eng.fid.cls = "MVC"
    /\ LET r == MVC_ps1D_stddev(eng.fid)
       IN  last' = Call("stddev", r, eng.fid.ps2D # Absent, eng.fid.n2d)
    /\ UNCHANGED <<kind, inp, eng, dist>>

VCANew ==
    /\ kind = "VCA" /\ eng.fid = NoObj
    /\ LET r == VCA_init(inp.cube1.data, inp.cube1.header, inp.slice_size, FALSE)
       IN  /\ eng' = [eng EXCEPT !.fid = r.obj]
           /\ last' = Call("VCA", r, FALSE, 0)
    /\ UNCHANGED <<kind, inp, dist>>

VCARun ==
    /\ eng.fid.cls = "VCA" /\ eng.fid.n2d < MaxCalls
    /\ \E brk \in {None, Val(1)}, return_stddev \in BOOLEAN :
         LET r == VCA_run(eng.fid, brk, return_stddev)
         IN  /\ eng' = [eng EXCEPT !.fid = r.obj]
             /\ last' = Call("run", r, eng.fid.ps2D # Absent, eng.fid.n2d)
    /\ UNCHANGED <<kind, inp, dist>>

\* ------------------------------------------------------------ distance calls
\* The fiducial_model argument: the caller's engine, or None.
Fiducials == {NoObj} \cup (IF eng.fid # NoObj THEN {eng.fid} ELSE {})

SCFDistanceNew ==
    /\ kind = "SCF" /\ dist = NoObj
    /\ \E fiducial_model \in Fiducials :
         LET r == SCF_Distance_init(inp.cube1, inp.cube2, inp.size, fiducial_model, inp.weighted)
         IN  /\ dist' = r.obj
             /\ eng' = [eng EXCEPT !.e1 = r.e1, !.e2 = r.e2]
             /\ last' = Call("SCF_Distance", r, FALSE, 0)
    /\ UNCHANGED <<kind, inp>>

SCFDistanceMetric ==
    /\ dist.cls = "SCF_Distance"
    /\ LET r == SCF_Distance_distance_metric(dist, eng[dist.scf1], eng[dist.scf2])
       IN  /\ dist' = r.obj
           /\ last' = Call("distance_metric", r, FALSE, 0)
    /\ UNCHANGED <<kind, inp, eng>>

MVCDistanceNew ==
    /\ kind = "MVC" /\ dist = NoObj
    /\ \E fiducial_model \in Fiducials :
         LET r == MVC_distance_init(inp.data1, inp.data2, fiducial_model)
         IN  /\ dist' = r.obj
             /\ eng' = [eng EXCEPT !.e1 = r.e1, !.e2 = r.e2]
             /\ last' = Call("MVC_distance", r, FALSE, 0)
    /\ UNCHANGED <<kind, inp>>

MVCDistanceMetric ==
    /\ dist.cls = "MVC_distance"
    /\ LET r == MVC_distance_distance_metric(dist, eng[dist.mvc1], eng[dist.mvc2], 2, 64)
       IN  /\ dist' = r.obj
           /\ last' = Call("distance_metric", r, FALSE, 0)
    /\ UNCHANGED <<kind, inp, eng>>

VCADistanceNew ==
    /\ kind = "VCA" /\ dist = NoObj
    /\ \E fiducial_model \in Fiducials :
         LET r == VCA_Distance_init(inp.cube1, inp.cube2, inp.slice_size, inp.breaks,
                                    fiducial_model)
         IN  /\ dist' = r.obj
             /\ eng' = [eng EXCEPT !.e1 = r.e1, !.e2 = r.e2]
             /\ last' = Call("VCA_Distance", r, FALSE, 0)
    /\ UNCHANGED <<kind, inp>>

VCADistanceMetric ==
    /\ dist.cls = "VCA_Distance"
    /\ LET r == VCA_Distance_distance_metric(dist, eng[dist.vca1], eng[dist.vca2])
       IN  /\ dist' = r.obj
           /\ last' = Call("distance_metric", r, FALSE, 0)
    /\ UNCHANGED <<kind, inp, eng>>

\* ------------------------------------------------------------ specifications
\* Spec: two datasets, the caller's engine for the first (built, and run or not),
\* and one distance object built with or without it as fiducial.
Init ==
    /\ \/ /\ kind = "SCF"
          /\ inp \in [cube1 : PairCubes, cube2 : PairCubes, size : Sizes, weighted : BOOLEAN]
       \/ /\ kind = "MVC"
          /\ inp \in [data1 : Datasets, data2 : Datasets]
       \/ /\ kind = "VCA"
          /\ inp \in [cube1 : VCubes, cube2 : VCubes, slice_size : SliceSizes, breaks : Breaks]
    /\ eng = NoEngines
    /\ dist = NoObj
    /\ last = Boot

Next ==
    \/ SCFNew \/ SCFRun \/ SCFDistanceNew \/ SCFDistanceMetric
    \/ MVCNew \/ MVCRun \/ MVCDistanceNew \/ MVCDistanceMetric
    \/ VCANew \/ VCARun \/ VCADistanceNew \/ VCADistanceMetric

Spec == Init /\ [][Next]_vars

\* SpecEngine: one engine on one dataset, every operation of it in any order.
InitEngine ==
    /\ \/ /\ kind = "SCF"
          /\ inp \in [cube1 : EngineCubes, size : Sizes]
       \/ /\ kind = "MVC"
          /\ inp \in [data1 : {Dataset(c, m, l) : c \in Fields, m \in Fields, l \in Fields}]
       \/ /\ kind = "VCA"
          /\ inp \in [cube1 : {[data |-> c, header |-> Header] : c \in EngineCubes},
                      slice_size : SliceSizes]
    /\ eng = NoEngines
    /\ dist = NoObj
    /\ last = Boot

NextEngine ==
    \/ SCFNew \/ SCFComputeSurface \/ SCFComputeSpectrum \/ SCFRun \/ SCFReadStddev
    \/ MVCNew \/ MVCComputePspec \/ MVCComputeRadialPspec \/ MVCRun \/ MVCReadStddev
    \/ VCANew \/ VCARun

SpecEngine == InitEngine /\ [][NextEngine]_vars

\* ------------------------------------------------------------ readiness
\* The engines a distance object uses.
Engine1 ==
    CASE dist.cls = "SCF_Distance" -> eng[dist.scf1]
      [] dist.cls = "MVC_distance" -> eng[dist.mvc1]
      [] dist.cls = "VCA_Distance" -> eng[dist.vca1]

Engine2 ==
    CASE dist.cls = "SCF_Distance" -> eng[dist.scf2]
      [] dist.cls = "MVC_distance" -> eng[dist.mvc2]
      [] dist.cls = "VCA_Distance" -> eng[dist.vca2]

UsesFiducial ==
    CASE dist.cls = "SCF_Distance" -> dist.scf1 = "fid"
      [] dist.cls = "MVC_distance" -> dist.mvc1 = "fid"
      [] dist.cls = "VCA_Distance" -> dist.vca1 = "fid"

\* Ready: the 2-D statistic and the 1-D profile are populated.
Ready(e) ==
    CASE e.cls = "SCF" -> e.scf_surface # None /\ e.scf_spectrum # Absent
      [] e.cls = "MVC" -> e.ps2D # Absent /\ e.ps1D # Absent
      [] e.cls = "VCA" -> e.ps2D # Absent /\ e.ps1D # Absent
      [] OTHER -> FALSE

ConstructorReturned ==
    /\ last.op \in {"SCF_Distance", "MVC_distance", "VCA_Distance"}
    /\ last.exc = NoExc

\* ------------------------------------------------------------ C1
\* C1 as stated: whenever a distance constructor has just returned, whatever the
\* fiducial was, both engines of the distance object are ready.
C1_BothReadyAlways == ConstructorReturned => Ready(Engine1) /\ Ready(Engine2)

\* C1: when a distance constructor returns, the second engine is ready, and the
\* first is ready when there was no fiducial or the fiducial had been run; a
\* fiducial that was never run is kept as it is, not ready.
C1_BothReadyUnlessFiducialNeverRun ==
    ConstructorReturned =>
        /\ Ready(Engine2)
        /\ IF UsesFiducial /\ eng.fid.n2d = 0 THEN ~Ready(Engine1) ELSE Ready(Engine1)

C1_Witness == ConstructorReturned /\ UsesFiducial /\ eng.fid.n2d > 0 /\ Ready(Engine1)

\* ------------------------------------------------------------ C2
\* What SCF_Distance(cube1, cube2, size).distance_metric() gives with no fiducial.
FreshDistance ==
    LET r == SCF_Distance_init(inp.cube1, inp.cube2, inp.size, NoObj, inp.weighted)
    IN  SCF_Distance_distance_metric(r.obj, r.e1, r.e2).obj.distance

FiducialDistanceTaken ==
    /\ kind = "SCF" /\ dist.cls = "SCF_Distance" /\ dist.scf1 = "fid"
    /\ eng.fid.n2d > 0
    /\ last.op = "distance_metric"

\* C2: after distance_metric() on an SCF_Distance built with the run engine
\* SCF(cube1, size) as fiducial, the distance is the one the same cubes and size
\* give with no fiducial.
C2_FiducialSameDistance == FiducialDistanceTaken => dist.distance = FreshDistance

C2_Witness == FiducialDistanceTaken /\ IsVal(dist.distance) /\ inp.cube1 # inp.cube2

\* ------------------------------------------------------------ C3
IsSquare(m, n) == Len(m) = n /\ \A r \in 1..n : Len(m[r]) = n

\* C3: SCF construction succeeds for every size; the stored size is the size when
\* odd and size - 1 when even, and a computed surface is square with that odd side.
C3_OddSizeSquareSurface ==
    /\ last.op = "SCF" => last.exc = NoExc /\ eng.fid.cls = "SCF"
    /\ eng.fid.cls = "SCF" =>
          /\ eng.fid.size = IF inp.size % 2 = 1 THEN inp.size ELSE inp.size - 1
          /\ eng.fid.size % 2 = 1
          /\ eng.fid.scf_surface # None => IsSquare(eng.fid.scf_surface[2], eng.fid.size)

C3_Witness ==
    /\ eng.fid.cls = "SCF" /\ inp.size % 2 = 0 /\ inp.size > 2
    /\ last.op = "compute_surface" /\ last.exc = NoExc

\* ------------------------------------------------------------ C4
\* C4 as stated: distance_metric() on SCF_Distance(cube1, cube2, size) returns and
\* sets distance, its weight grid having the side of both surfaces.
C4_EvenSizeDistance ==
    (dist.cls = "SCF_Distance" /\ dist.scf1 = "e1" /\ last.op = "distance_metric") =>
        /\ last.exc = NoExc
        /\ IsVal(dist.distance)
        /\ Len(dist.dist_weight[2]) = Len(eng.e1.scf_surface[2])
        /\ Len(dist.dist_weight[2]) = Len(eng.e2.scf_surface[2])

\* ------------------------------------------------------------ C5
SurfaceComputed ==
    /\ eng.fid.cls = "SCF" /\ eng.fid.cube.ndim = 3
    /\ eng.fid.scf_surface # None

Centre(e) == e.scf_surface[2][(e.size \div 2) + 1][(e.size \div 2) + 1]

CubeCells(cube) ==
    {cube.data[z][y][x] : z \in 1..cube.shape[1], y \in 1..cube.shape[2], x \in 1..cube.shape[3]}

\* Some cell of the cube is a non-zero number.
HasSignal(cube) == \E v \in CubeCells(cube) : ~IsNaN(v) /\ v # 0

\* C5 as stated: for every cube the zero-lag cell of a computed surface is 1.
C5_ZeroLagAlwaysOne == SurfaceComputed => Centre(eng.fid) = Frac(0, 1)

\* C5: the zero-lag cell of a computed surface is 1 when some cell of the cube is a
\* non-zero number, and NaN when every cell is 0 or NaN.
C5_ZeroLagOneIfSignal ==
    SurfaceComputed =>
        Centre(eng.fid) = IF HasSignal(eng.fid.cube) THEN Frac(0, 1) ELSE NaNF

C5_Witness ==
    /\ SurfaceComputed /\ HasSignal(eng.fid.cube) /\ NaN \in CubeCells(eng.fid.cube)
    /\ eng.fid.size > 1 /\ last.op = "compute_surface"

\* ------------------------------------------------------------ C6
\* C6: the computed surface of a NaN-free cube is unchanged by negating the lag:
\* cell (i, j) equals cell (-i, -j).
C6_SurfaceSymmetric ==
    (SurfaceComputed /\ NaN \notin CubeCells(eng.fid.cube)) =>
        LET n == eng.fid.size
            m == eng.fid.scf_surface[2]
        IN  \A r \in 1..n, c \in 1..n : m[r][c] = m[n + 1 - r][n + 1 - c]

C6_Witness ==
    /\ SurfaceComputed /\ NaN \notin CubeCells(eng.fid.cube)
    /\ eng.fid.size = 3 /\ eng.fid.cube.shape = <<1, 1, 3>>
    /\ eng.fid.scf_surface[2][2][3] \notin {Frac(0, 1), Frac(1, 1), NaNF}

\* ------------------------------------------------------------ C7
\* C7 as stated: weighted, the weight on the squared difference at lag (i, j) is
\* 1/(i^2 + j^2), the centre weighted as if r = 1; unweighted, every weight is 1.
C7_WeightIsInverseSquare ==
    (dist.cls = "SCF_Distance" /\ dist.dist_weight # Absent) =>
        LET h == dist.size \div 2
        IN  \A r \in 1..dist.size, c \in 1..dist.size :
               dist.dist_weight[2][r][c] =
                  IF ~dist.weighted \/ (r - 1 - h = 0 /\ c - 1 - h = 0) THEN Frac(1, 1)
                  ELSE Frac(1, Sq(r - 1 - h) + Sq(c - 1 - h))

\* ------------------------------------------------------------ C8
ProfilePresent(e) ==
    CASE e.cls = "SCF" -> e.scf_surface # None /\ e.scf_spectrum # Absent
      [] e.cls = "MVC" -> e.ps2D # Absent /\ e.ps1D # Absent
      [] OTHER -> FALSE

\* C8 as stated: the 1-D profile operation of an SCF or MVC engine returns without
\* raising, having computed the 2-D statistic exactly when it was absent.
C8_ProfileComputesMissingStatistic ==
    (/\ last.op \in {"compute_spectrum", "compute_radial_pspec"}
     /\ eng.fid.cls = "SCF" => eng.fid.cube.ndim = 3) =>
        /\ last.exc = NoExc
        /\ ProfilePresent(eng.fid)
        /\ eng.fid.n2d = last.n2d0 + IF last.had2d THEN 0 ELSE 1

\* ------------------------------------------------------------ C9
\* C9 as stated: when the latest profile computation did not ask for the standard
\* deviation (or none was made), reading the stddev property returns None.
C9_StddevNoneUnlessRequested ==
    (last.op = "stddev" /\ eng.fid.stddev_flag # Val(TRUE)) =>
        last.exc = NoExc /\ last.ret = None

\* ------------------------------------------------------------ C10
InvalidInput ==
    CASE kind = "SCF" -> inp.cube1.ndim # 3
      [] kind = "VCA" -> inp.cube1.data.ndim # 3
      [] kind = "MVC" -> \/ inp.data1.centroid.shape # inp.data1.moment0.shape
                         \/ inp.data1.centroid.shape # inp.data1.linewidth.shape

\* C10 as stated: a constructor given invalid input (fields of different shapes,
\* a cube that is not 3-D) raises, and no engine results.
C10_InvalidRejectedAtConstruction ==
    (last.op \in {"SCF", "MVC", "VCA"} /\ InvalidInput) =>
        last.exc # NoExc /\ eng.fid = NoObj

\* ------------------------------------------------------------ C11
\* The least non-NaN cell of a 3-D cube, NaN when there is none.
CubeMin(cube) ==
    LET fin == {v \in CubeCells(cube) : ~IsNaN(v)}
    IN  IF fin = {} THEN NaN ELSE CHOOSE m \in fin : \A v \in fin : m <= v

\* The data of a 3-D cube with every NaN cell replaced by fill, all else unchanged.
Filled(cube, fill) ==
    [z \in 1..cube.shape[1] |->
       [y \in 1..cube.shape[2] |->
          [x \in 1..cube.shape[3] |->
             IF IsNaN(cube.data[z][y][x]) THEN fill ELSE cube.data[z][y][x]]]]

FieldSanitized(held, given) ==
    /\ NaN \notin Cells(held)
    /\ held = FillNaN(given, NanMin(given))

EngineBuilt == last.op \in {"SCF", "MVC", "VCA"} /\ last.exc = NoExc

\* C11 as stated: a constructed engine holds no NaN; MVC and SCF hold their input
\* with each NaN cell replaced by the minimum of the field's non-NaN cells, VCA
\* holds its input with each NaN cell replaced by 0, every other cell unchanged.
C11_NoNaNAfterConstruction ==
    EngineBuilt =>
        CASE kind = "SCF" ->
                 inp.cube1.ndim = 3 =>
                     /\ NaN \notin CubeCells(eng.fid.cube)
                     /\ eng.fid.cube.data = Filled(inp.cube1, CubeMin(inp.cube1))
          [] kind = "MVC" ->
                 /\ FieldSanitized(eng.fid.centroid, inp.data1.centroid)
                 /\ FieldSanitized(eng.fid.moment0, inp.data1.moment0)
                 /\ FieldSanitized(eng.fid.linewidth, inp.data1.linewidth)
          [] kind = "VCA" ->
                 inp.cube1.data.ndim = 3 =>
                     /\ NaN \notin CubeCells(eng.fid.cube)
                     /\ eng.fid.cube.data = Filled(inp.cube1.data, 0)

\* ------------------------------------------------------------ C12
\* C12 as stated: VCA(cube, header, slice_size) returns an engine for every
\* slice_size; the cube keeps its slice thickness when slice_size is None or 1.0
\* and is at thickness s when slice_size is another value s.
C12_EverySliceSizeConstructs ==
    (last.op = "VCA" /\ kind = "VCA") =>
        /\ last.exc = NoExc
        /\ eng.fid # NoObj
        /\ eng.fid.cube.thick =
               IF inp.slice_size \in {None, Val(1)} THEN inp.cube1.data.thick
               ELSE inp.slice_size[2]

\* ------------------------------------------------------------ C13
\* The break value engine k of a pair is to be run with.
BreakFor(breaks, k) == IF breaks[1] = "list" THEN Val(breaks[k + 1]) ELSE breaks

\* C13 as stated: VCA_Distance built without a fiducial runs engine 1 with
\* brk = b1 and engine 2 with brk = b2 when breaks is a list [b1, b2], and both
\* with brk = b when breaks is a single value b.
C13_EachEngineOneBreak ==
    (last.op = "VCA_Distance" /\ last.exc = NoExc /\ ~UsesFiducial) =>
        /\ eng.e1.brk = Val(BreakFor(inp.breaks, 1))
        /\ eng.e2.brk = Val(BreakFor(inp.breaks, 2))

====
